---- MODULE Spec2Model ----
(***************************************************************************)
(* aioretry: the retry loop of src/aioretry/retry.py.                      *)
(*                                                                         *)
(* One call of a decorated coroutine function is a process.  wrapped()     *)
(* resolves the policy and the hook with get_method() and runs perform(),  *)
(* whose positions are the places where the coroutine can be suspended     *)
(* (awaiting fn, an awaitable policy result, an awaitable hook result,     *)
(* asyncio.sleep) and the synchronous stretches between them.              *)
(*                                                                         *)
(* What the caller supplies is input: the operation's result on each       *)
(* attempt, what the policy and the hook do on each call, the arguments,   *)
(* whether the task is cancelled, and how much time passes.                *)
(***************************************************************************)
EXTENDS Integers, Sequences, FiniteSets, TLC

VARIABLES
    calls,          \* call id -> the state of that call of wrapped()
    now,            \* time.monotonic()
    runtime,        \* the interpreter the package runs on
    retry_policy,   \* the decorator's first argument
    before_retry    \* the decorator's second argument, or NoTarget

vars == <<calls, now, runtime, retry_policy, before_retry>>

(***************************************************************************)
(* Bounds of the model.                                                    *)
(***************************************************************************)
\* fn is invoked at most this many times in one call
MaxAttempts == 3
\* the policy's delays are drawn from 0..MaxDelay
MaxDelay == 2
\* time passing on its own (Tick) stops here; a sleep may carry it further
MaxTime == 1
\* cancellations requested of one call
MaxCancels == 1

\* The calls of the specification Spec: one call of the wrapped function.
Calls == {"c1"}

(***************************************************************************)
(* Values.                                                                 *)
(***************************************************************************)
\* An exception object: who raised it (by), on which failure or invocation
\* (n, which makes the objects of different attempts different objects),
\* whether its class derives from Exception or only from BaseException, and
\* what its message names.
Exc(by, n, base) == [by |-> by, n |-> n, base |-> base, what |-> <<>>]

NoExc == Exc("none", 0, "none")

Bases == {"Exception", "BaseException"}

\* The interpreters setup.py declares: asyncio.CancelledError derives from
\* Exception on Python 3.7 and from BaseException from Python 3.8 on.
Runtimes == {"py37", "py38plus"}

CancelledError(rt) ==
    Exc("cancel", 0, IF rt = "py37" THEN "Exception" ELSE "BaseException")

\* `except Exception` catches e
IsException(e) == e.base = "Exception"

\* The value None
None == "None"

\* Outcome of a call: still running, returned a value, or raised.
Running == [kind |-> "running", value |-> None, exc |-> NoExc]
Returned(v) == [kind |-> "return", value |-> v, exc |-> NoExc]
Raised(e) == [kind |-> "raise", value |-> None, exc |-> e]

(***************************************************************************)
(* RetryInfo objects live in a heap (a sequence; a reference is an index,  *)
(* 0 is None), so that a reference kept by a policy or a hook can be read  *)
(* again later.                                                            *)
(***************************************************************************)
\* RetryInfo.__init__: a new object, and the reference to it
RetryInfo(heap, fails, exception, since) ==
    [heap |-> Append(heap, [fails |-> fails, exception |-> exception,
                            since |-> since]),
     ref |-> Len(heap) + 1]

\* update as a bug would have it: the failure count starts over
update_restarting(heap, self, exception) ==
    RetryInfo(heap, 1, exception, heap[self].since)

\* update as a bug would have it: the object is changed in place
update_in_place(heap, self, exception) ==
    [heap |-> [heap EXCEPT ![self] = [fails |-> @.fails + 1,
                                      exception |-> exception,
                                      since |-> @.since]],
     ref |-> self]

\* RetryInfo.update: a new object with fails + 1, the new exception and the
\* same since
update(heap, self, exception) ==
    RetryInfo(heap, heap[self].fails + 1, exception, heap[self].since)

\* What a holder of reference ref reads
Snapshot(heap, ref) ==
    [ref |-> ref, fails |-> heap[ref].fails,
     exception |-> heap[ref].exception, since |-> heap[ref].since]

(***************************************************************************)
(* get_method: what the decorator was given (a target) is resolved against *)
(* the receiver (host), the first positional argument of the call.         *)
(*                                                                         *)
(* A target is a str (the name of an attribute of the host) or a callable: *)
(* a function, or a classmethod / staticmethod wrapper object, with the    *)
(* __name__ it carries (None: it carries none, like a functools.partial)   *)
(* and the identity of the function (fid).                                 *)
(***************************************************************************)
Str(nm) == [form |-> "str", nm |-> nm, wrap |-> "none", fid |-> "none"]
Callable(fid, nm, wrap) ==
    [form |-> "callable", nm |-> nm, wrap |-> wrap, fid |-> fid]
NoTarget == [form |-> "None", nm |-> None, wrap |-> "none", fid |-> "none"]

\* A resolved callable: the function and the receiver it is bound to
Resolved(fid, self) == [fid |-> fid, self |-> self]
NoCallable == Resolved("none", None)

\* The receivers of the model: "self" is an instance of class K, which
\* defines the functions _retry and _hook, and has the instance attribute
\* external_retry; "x" is a value of a class with none of these (an int).
\* type(host)
TypeOf(host) == IF host = "self" THEN "K" ELSE "int"

\* getattr(cls, nm, None): the identity of the function found, or None
ClassAttr(cls, nm) ==
    IF cls = "K" /\ nm \in {"_retry", "_hook"} THEN "K." \o nm ELSE None

\* the instance's own attributes: the identity of the function, or None
InstanceAttr(host, nm) ==
    IF host = "self" /\ nm = "external_retry" THEN "fake_external_retry"
    ELSE None

\* getattr(host, nm): the bound callable, and whether the attribute exists
GetAttr(host, nm) ==
    IF InstanceAttr(host, nm) # None
    THEN [found |-> TRUE, it |-> Resolved(InstanceAttr(host, nm), None)]
    ELSE IF ClassAttr(TypeOf(host), nm) # None
    THEN [found |-> TRUE, it |-> Resolved(ClassAttr(TypeOf(host), nm), host)]
    ELSE [found |-> FALSE, it |-> NoCallable]

\* the RuntimeError of get_method: its message names the role and the target
ConfigurationError(name, target) ==
    [by |-> "get_method", n |-> 0, base |-> "Exception",
     what |-> <<name, target.nm>>]

AttributeError(nm) ==
    [by |-> "getattr", n |-> 0, base |-> "Exception", what |-> <<nm>>]

\* get_method as a bug would have it: the host is not checked before the
\* attribute is looked up
get_method_unchecked(target, host, name) ==
    IF target.form = "str"
    THEN IF GetAttr(host, target.nm).found
         THEN [exc |-> NoExc, it |-> GetAttr(host, target.nm).it]
         ELSE [exc |-> AttributeError(target.nm), it |-> NoCallable]
    ELSE [exc |-> NoExc, it |-> Resolved(target.fid, None)]

\* get_method(target, host, name): the callable, or the exception raised
get_method(target, host, name) ==
    IF target.form = "str"
    THEN IF host = None
         THEN [exc |-> ConfigurationError(name, target), it |-> NoCallable]
         ELSE IF GetAttr(host, target.nm).found
              THEN [exc |-> NoExc, it |-> GetAttr(host, target.nm).it]
              ELSE [exc |-> AttributeError(target.nm), it |-> NoCallable]
    ELSE IF host = None
    THEN [exc |-> NoExc, it |-> Resolved(target.fid, None)]
    ELSE IF target.wrap = "classmethod"
    THEN [exc |-> NoExc, it |-> Resolved(target.fid, TypeOf(host))]
    ELSE IF target.wrap = "staticmethod"
    THEN [exc |-> NoExc, it |-> Resolved(target.fid, None)]
    ELSE IF target.nm = None
    THEN [exc |-> AttributeError("__name__"), it |-> NoCallable]
    ELSE IF target.fid = ClassAttr(TypeOf(host), target.nm)
    THEN [exc |-> NoExc, it |-> Resolved(target.fid, host)]
    ELSE [exc |-> NoExc, it |-> Resolved(target.fid, None)]

(***************************************************************************)
(* One call of wrapped().  pc is the position of the coroutine:            *)
(*   idle          not called yet                                          *)
(*   fn            suspended in `await fn(...)`                            *)
(*   policy        fne caught and info made; about to call retry_policy    *)
(*   policy_await  suspended in `await retry_policy_rt`                    *)
(*   hook          about to call before_retry(info)                        *)
(*   hook_await    suspended in await_coro                                 *)
(*   sleep         suspended in asyncio.sleep(delay)                       *)
(*   done          returned or raised                                      *)
(* args, kwargs, policy, hook, info, fne, abandon and delay are perform's  *)
(* parameters and locals.  The other fields record what happened: each     *)
(* invocation of fn with its arguments, each exception caught, each        *)
(* snapshot handed to the policy and to the hook, each decision, each      *)
(* sleep, each warning; what the caller gave (given), what fn returned     *)
(* (result), what the policy or the hook raised (thrown), and what had     *)
(* been done at the moment of a cancellation (atCancel), each value the    *)
(* policy answered with, unpacked or not (answers), and whether a result   *)
(* of the policy or of the hook was an awaitable that perform awaited      *)
(* (awaited), and the step of perform the call ended in (exit).            *)
(***************************************************************************)
NothingThrown == [at |-> "none", exc |-> NoExc, counts |-> <<>>]

NewCall ==
    [pc |-> "idle", args |-> <<>>, kwargs |-> <<>>,
     policy |-> NoCallable, hook |-> NoCallable,
     info |-> 0, heap |-> <<>>, fne |-> NoExc,
     abandon |-> FALSE, delay |-> 0, wake |-> 0,
     outcome |-> Running,
     given |-> [args |-> <<>>, kwargs |-> <<>>], result |-> None,
     invoked |-> <<>>, caught |-> <<>>, handed |-> <<>>, hooked |-> <<>>,
     decided |-> <<>>, sleeps |-> <<>>, warned |-> <<>>,
     thrown |-> NothingThrown, cancels |-> 0, atCancel |-> <<>>,
     answers |-> <<>>, awaited |-> FALSE, exit |-> "none"]

Suspended == {"fn", "policy_await", "hook_await", "sleep"}

\* What has been done so far: attempts, failures caught, policy
\* evaluations, hook invocations, sleeps
Counts(s) ==
    <<Len(s.invoked), Len(s.caught), Len(s.handed), Len(s.hooked),
      Len(s.sleeps)>>

\* the policy or the hook (who) raises e
Throws(s, who, e) ==
    [s EXCEPT !.thrown = [at |-> who, exc |-> e, counts |-> Counts(s)]]

\* the step of perform a position belongs to: the attempt, the policy
\* evaluation, the hook invocation, the delay ("idle": before perform)
StepOf(pc) ==
    CASE pc = "policy_await" -> "policy"
      [] pc = "hook_await" -> "hook"
      [] OTHER -> pc

\* the call ends: `return` or an exception leaving perform
Finish(s, outcome) ==
    [s EXCEPT !.pc = "done", !.outcome = outcome, !.exit = StepOf(s.pc)]

\* `return await fn(...)`, fn having returned v
Return(s, v) == Finish(s, Returned(v))

\* warn as a bug would have it: nothing is reported
warn_nothing(s, method_name) == s

\* warn(method_name, exception): warnings.warn records a UserWarning and
\* returns (a warnings filter that turns warnings into exceptions is the
\* caller's configuration of the interpreter, and is not modelled)
warn(s, method_name) == [s EXCEPT !.warned = Append(@, method_name)]

\* as a bug would have it: the receiver is taken off the arguments
CallArgs_rest(args) == IF Len(args) > 0 THEN Tail(args) ELSE args

\* the positional arguments fn is invoked with: *args
CallArgs(args) == args

\* the keyword arguments fn is invoked with: **kwargs
CallKwargs(kwargs) == kwargs

\* `await fn(...)`: fn is invoked and perform waits for it
Invoke(s, t) ==
    [s EXCEPT !.pc = "fn",
              !.invoked = Append(@, [args |-> CallArgs(s.args),
                                     kwargs |-> CallKwargs(s.kwargs),
                                     at |-> t])]

\* perform as a bug would have it: the episode is made before the first
\* attempt
perform_eager(s, policy, hook, args, kwargs, t) ==
    LET r == RetryInfo(s.heap, 0, NoExc, t)
    IN  Invoke([s EXCEPT !.policy = policy, !.hook = hook, !.args = args,
                         !.kwargs = kwargs, !.heap = r.heap, !.info = r.ref],
               t)

\* `info = None` and the first pass of `while True`
perform(s, policy, hook, args, kwargs, t) ==
    Invoke([s EXCEPT !.policy = policy, !.hook = hook, !.args = args,
                     !.kwargs = kwargs, !.info = 0], t)

\* `host = args[0] if len(args) > 0 else None`
Host(args) == IF Len(args) > 0 THEN args[1] ELSE None

\* wrapped(...): both get_method calls are evaluated, in this
\* order, as arguments of perform, so before perform starts
wrapped(s, rp, br, args, kwargs, t) ==
    LET host == Host(args)
        p == get_method(rp, host, "retry_policy")
        h == IF br # NoTarget
             THEN get_method(br, host, "before_retry")
             ELSE [exc |-> NoExc, it |-> NoCallable]
    IN  IF p.exc # NoExc THEN Finish(s, Raised(p.exc))
        ELSE IF h.exc # NoExc THEN Finish(s, Raised(h.exc))
        ELSE perform(s, p.it, h.it, args, kwargs, t)

\* as a bug would have it: the first failure is raised, not the last
AbandonError_first(s) == s.caught[1].exc

\* the exception raised when the policy abandons: `raise fne`
AbandonError(s) == s.fne

\* as a bug would have it: the operation's error hides the policy's
PolicyError_fne(s, pe) == s.fne

\* the exception raised when the policy raised pe: `raise pe`
PolicyError(s, pe) == pe

\* as a bug would have it: the operation's error hides the hook's
HookError_fne(s, be) == s.fne

\* the exception raised when the hook raised be: `raise be`
HookError(s, be) == be

\* as a bug would have it: asyncio.sleep(0) is awaited too
ShouldSleep_zero(delay) == delay >= 0

\* `if delay > 0`
ShouldSleep(delay) == delay > 0

\* as a bug would have it: the sleep is started and not awaited
Delay_unawaited(s, t) ==
    IF ShouldSleep(s.delay)
    THEN Invoke([s EXCEPT !.sleeps = Append(@, [after |-> Len(s.caught),
                                                duration |-> s.delay,
                                                start |-> t, end |-> -1])],
                t)
    ELSE Invoke(s, t)

\* `if delay > 0: await asyncio.sleep(delay)`, then the next pass of the loop
Delay(s, t) ==
    IF ShouldSleep(s.delay)
    THEN [s EXCEPT !.pc = "sleep", !.wake = t + s.delay,
                   !.sleeps = Append(@, [after |-> Len(s.caught),
                                         duration |-> s.delay,
                                         start |-> t, end |-> -1])]
    ELSE Invoke(s, t)

\* as a bug would have it: the loop goes back to the sleep, not to fn
Wake_again(s, t) == [s EXCEPT !.wake = t]

\* asyncio.sleep returns, at time t
Wake(s, t) ==
    Invoke([s EXCEPT !.sleeps[Len(s.sleeps)].end = t], t)

\* an exception e surfaces from `await fn(...)`: `except Exception as fne`
\* and the making of info
ThrowAtFn(s, e, t) ==
    IF ~IsException(e) THEN Finish(s, Raised(e))
    ELSE LET r == IF s.info = 0
                  THEN RetryInfo(s.heap, 1, e, t)
                  ELSE update(s.heap, s.info, e)
         IN  [s EXCEPT !.pc = "policy", !.fne = e, !.heap = r.heap,
                       !.info = r.ref,
                       !.caught = Append(@, [exc |-> e, at |-> t])]

\* an exception e surfaces in the try block around the policy:
\* `except Exception as pe: warn('retry_policy', pe); raise pe`
ThrowAtPolicy(s, e) ==
    IF IsException(e)
    THEN Finish(warn(s, "retry_policy"), Raised(PolicyError(s, e)))
    ELSE Finish(s, Raised(e))

\* an exception e surfaces in the try block around the hook:
\* `except Exception as be: warn('before_retry', be); raise be`
ThrowAtHook(s, e) ==
    IF IsException(e)
    THEN Finish(warn(s, "before_retry"), Raised(HookError(s, e)))
    ELSE Finish(s, Raised(e))

\* the hook is passed info
HandHook(s) == [s EXCEPT !.hooked = Append(@, Snapshot(s.heap, s.info))]

\* as a bug would have it: abandoning ends the call without an exception
Decide_return(s, t) ==
    IF s.abandon THEN Finish(s, Returned(None))
    ELSE IF s.hook # NoCallable THEN [s EXCEPT !.pc = "hook"]
    ELSE Delay(s, t)

\* as a bug would have it: the hook is passed over
Decide_unhooked(s, t) ==
    IF s.abandon THEN Finish(s, Raised(AbandonError(s)))
    ELSE Delay(s, t)

\* as a bug would have it: a decision to abandon with a delay is carried
\* out after the hook and the delay, like a retry
Decide_late(s, t) ==
    IF s.abandon /\ s.delay = 0 THEN Finish(s, Raised(AbandonError(s)))
    ELSE IF s.hook # NoCallable THEN [s EXCEPT !.pc = "hook"]
    ELSE Delay(s, t)

\* `if abandon: raise fne`, `if before_retry is not None:`
Decide(s, t) ==
    IF s.abandon THEN Finish(s, Raised(AbandonError(s)))
    ELSE IF s.hook # NoCallable THEN [s EXCEPT !.pc = "hook"]
    ELSE Delay(s, t)

\* as a bug would have it: the result is unpacked outside the try block
PolicyResult_unguarded(s, v, t) ==
    IF ~v.pair
    THEN Finish(s, Raised(Exc("unpack", Len(s.caught), "Exception")))
    ELSE Decide([s EXCEPT !.abandon = v.abandon, !.delay = v.delay,
                          !.decided = Append(@, v)], t)

\* the policy's result v is there: `abandon, delay = ...` fails on a value
\* that is no pair, inside the try block
PolicyResult(s, v, t) ==
    IF ~v.pair
    THEN ThrowAtPolicy(s, Exc("unpack", Len(s.caught), "Exception"))
    ELSE Decide([s EXCEPT !.abandon = v.abandon, !.delay = v.delay,
                          !.decided = Append(@, v)], t)

\* what a policy answers with: a pair (abandon, delay), or a value that
\* `abandon, delay = ...` cannot unpack
Pair(abandon, delay) == [pair |-> TRUE, abandon |-> abandon, delay |-> delay]
NoPair == [pair |-> FALSE, abandon |-> FALSE, delay |-> 0]

\* as a bug would have it: the awaitable itself is unpacked, which fails
Awaited_not(v) == NoPair

\* `await retry_policy_rt`: the value the awaitable resolves to
Awaited(v) == v

\* the policy answers v, at once or through an awaitable
Answer(s, v) == [s EXCEPT !.answers = Append(@, v)]

\* the policy is passed info
HandPolicy(s) == [s EXCEPT !.handed = Append(@, Snapshot(s.heap, s.info))]

(***************************************************************************)
(* Inputs.                                                                 *)
(***************************************************************************)
\* the arguments of a call, positional and keyword: no positional argument,
\* a receiver and a value, a value that is no receiver
CallShapes ==
    {[args |-> <<>>, kwargs |-> <<"k">>],
     [args |-> <<"self", "x">>, kwargs |-> <<"k">>],
     [args |-> <<"x">>, kwargs |-> <<>>]}

\* what fn may return
Results == {"a", "b"}

\* what the decorator may be given: retry(retry_policy, before_retry).
\* Every kind of target occurs as a policy, and a hook is absent, a name or
\* a function.
Decoration(rp, br) == [retry_policy |-> rp, before_retry |-> br]

HookFunction == Callable("before_retry", "before_retry", "function")

Decorations ==
    {Decoration(Str("_retry"), NoTarget),
     Decoration(Str("_retry"), Str("_hook")),
     Decoration(Callable("K._retry", "_retry", "function"), Str("_hook")),
     Decoration(Callable("external_retry", "external_retry", "function"),
                HookFunction),
     Decoration(Callable("external_retry", "external_retry", "function"),
                Str("_hook")),
     Decoration(Callable("external_class_retry", "external_class_retry",
                         "classmethod"), NoTarget),
     Decoration(Callable("external_static_retry", "external_static_retry",
                         "staticmethod"), HookFunction),
     Decoration(Callable("partial", None, "function"), NoTarget)}

\* what a policy may return on the current failure of call state s: no pair
\* at all, or (abandon, delay).  A policy of the model stops retrying at the
\* MaxAttempts-th failure.
PolicyValues(s) ==
    {NoPair} \cup
    {Pair(a, d) : a \in {TRUE}, d \in 0..MaxDelay} \cup
    {Pair(a, d) : a \in {b \in {FALSE} : Len(s.invoked) < MaxAttempts},
                  d \in 0..MaxDelay}

Max(a, b) == IF a >= b THEN a ELSE b

(***************************************************************************)
(* The initial state: the function is decorated, and not called yet.       *)
(***************************************************************************)
Init ==
    /\ calls = [c \in Calls |-> NewCall]
    /\ now = 0
    /\ runtime \in Runtimes
    /\ \E d \in Decorations :
          /\ retry_policy = d.retry_policy
          /\ before_retry = d.before_retry

\* as a bug would have it: info is kept where every call of the wrapped
\* function finds it (a variable of the decorator, not of perform)
Set_shared(c, s) ==
    /\ calls' = [d \in DOMAIN calls |->
                    IF d = c \/ calls[d].pc \in {"idle", "done"} THEN
                        IF d = c THEN s ELSE calls[d]
                    ELSE [calls[d] EXCEPT !.info = s.info, !.heap = s.heap]]
    /\ UNCHANGED <<now, runtime, retry_policy, before_retry>>

Set(c, s) ==
    /\ calls' = [calls EXCEPT ![c] = s]
    /\ UNCHANGED <<now, runtime, retry_policy, before_retry>>

(***************************************************************************)
(* Actions.                                                                *)
(***************************************************************************)
\* the wrapped function is called
Wrapped(c, args, kwargs) ==
    /\ calls[c].pc = "idle"
    /\ Set(c, wrapped([calls[c] EXCEPT !.given = [args |-> args,
                                                  kwargs |-> kwargs]],
                       retry_policy, before_retry, args, kwargs, now))

\* fn returns v: `return await fn(...)`
FnReturn(c, v) ==
    /\ calls[c].pc = "fn"
    /\ Set(c, Return([calls[c] EXCEPT !.result = v], v))

\* fn raises
FnRaise(c, base) ==
    /\ calls[c].pc = "fn"
    /\ Set(c, ThrowAtFn(calls[c], Exc("fn", Len(calls[c].invoked), base), now))

\* retry_policy(info) raises
PolicyRaise(c, base) ==
    /\ calls[c].pc = "policy"
    /\ LET e == Exc("policy", Len(calls[c].caught), base)
       IN  Set(c, ThrowAtPolicy(Throws(HandPolicy(calls[c]), "policy", e), e))

\* retry_policy(info) returns a value that is not awaitable
PolicyReturn(c, v) ==
    /\ calls[c].pc = "policy"
    /\ v \in PolicyValues(calls[c])
    /\ Set(c, PolicyResult(Answer(HandPolicy(calls[c]), v), v, now))

\* retry_policy(info) returns an awaitable: `await retry_policy_rt`
PolicyDefer(c) ==
    /\ calls[c].pc = "policy"
    /\ Set(c, [HandPolicy(calls[c]) EXCEPT !.pc = "policy_await",
                                            !.awaited = TRUE])

\* the awaited policy result is v
PolicyResolve(c, v) ==
    /\ calls[c].pc = "policy_await"
    /\ v \in PolicyValues(calls[c])
    /\ Set(c, PolicyResult(Answer(calls[c], v), Awaited(v), now))

\* the awaited policy raises
PolicyReject(c, base) ==
    /\ calls[c].pc = "policy_await"
    /\ LET e == Exc("policy", Len(calls[c].caught), base)
       IN  Set(c, ThrowAtPolicy(Throws(calls[c], "policy", e), e))

\* before_retry(info) returns None: await_coro awaits nothing
HookReturn(c) ==
    /\ calls[c].pc = "hook"
    /\ Set(c, Delay(HandHook(calls[c]), now))

\* before_retry(info) raises
HookRaise(c, base) ==
    /\ calls[c].pc = "hook"
    /\ LET e == Exc("hook", Len(calls[c].caught), base)
       IN  Set(c, ThrowAtHook(Throws(HandHook(calls[c]), "hook", e), e))

\* before_retry(info) returns an awaitable: await_coro awaits it
HookDefer(c) ==
    /\ calls[c].pc = "hook"
    /\ Set(c, [HandHook(calls[c]) EXCEPT !.pc = "hook_await",
                                          !.awaited = TRUE])

\* the awaited hook is done
HookResolve(c) ==
    /\ calls[c].pc = "hook_await"
    /\ Set(c, Delay(calls[c], now))

\* the awaited hook raises
HookReject(c, base) ==
    /\ calls[c].pc = "hook_await"
    /\ LET e == Exc("hook", Len(calls[c].caught), base)
       IN  Set(c, ThrowAtHook(Throws(calls[c], "hook", e), e))

\* the timer of asyncio.sleep fires, not before its time
SleepDone(c) ==
    /\ calls[c].pc = "sleep"
    /\ now' = Max(now, calls[c].wake)
    /\ calls' = [calls EXCEPT ![c] = Wake(calls[c], now')]
    /\ UNCHANGED <<runtime, retry_policy, before_retry>>

\* CancelledError is thrown into the coroutine where it is suspended
Throw(s, e, t) ==
    CASE s.pc = "fn" -> ThrowAtFn(s, e, t)
      [] s.pc = "policy_await" -> ThrowAtPolicy(s, e)
      [] s.pc = "hook_await" -> ThrowAtHook(s, e)
      [] s.pc = "sleep" -> Finish(s, Raised(e))

\* the task running the call is cancelled
Cancel(c) ==
    /\ calls[c].pc \in Suspended
    /\ calls[c].cancels < MaxCancels
    /\ Set(c, Throw([calls[c] EXCEPT !.cancels = @ + 1,
                                     !.atCancel = Counts(calls[c])],
                    CancelledError(runtime), now))

\* time passes while an operation runs
Tick ==
    /\ now < MaxTime
    /\ \E c \in DOMAIN calls : calls[c].pc = "fn"
    /\ now' = now + 1
    /\ UNCHANGED <<calls, runtime, retry_policy, before_retry>>

Step(c) ==
    \/ \E a \in CallShapes : Wrapped(c, a.args, a.kwargs)
    \/ \E v \in Results : FnReturn(c, v)
    \/ \E base \in Bases : FnRaise(c, base)
    \/ \E base \in Bases : PolicyRaise(c, base)
    \/ \E v \in PolicyValues(calls[c]) : PolicyReturn(c, v)
    \/ PolicyDefer(c)
    \/ \E v \in PolicyValues(calls[c]) : PolicyResolve(c, v)
    \/ \E base \in Bases : PolicyReject(c, base)
    \/ HookReturn(c)
    \/ \E base \in Bases : HookRaise(c, base)
    \/ HookDefer(c)
    \/ HookResolve(c)
    \/ \E base \in Bases : HookReject(c, base)
    \/ SleepDone(c)
    \/ Cancel(c)

Next == (\E c \in Calls : Step(c)) \/ Tick

Spec == Init /\ [][Next]_vars

(***************************************************************************)
(* Concurrent calls: the same wrapped function is called twice, and the    *)
(* two coroutines are interleaved at their suspension points.  Each call   *)
(* runs perform with its own locals; the decorator's arguments and the     *)
(* clock are what they share.  The inputs are fewer than in Spec: two      *)
(* decorations (one with a hook), exceptions that derive from Exception,   *)
(* at most ConcAttempts attempts of a call, no cancellation (so that the   *)
(* interpreter makes no difference), and time passes only in the sleeps.   *)
(***************************************************************************)
\* fn is invoked at most this many times in one of the concurrent calls
ConcAttempts == 2

ConcCalls == {"c1", "c2"}

ConcDecorations ==
    {Decoration(Str("_retry"), NoTarget),
     Decoration(Callable("external_retry", "external_retry", "function"),
                HookFunction)}

ConcShapes == {[args |-> <<"self", "x">>, kwargs |-> <<"k">>]}

\* the policy abandons with delay 0, or retries at once or after MaxDelay
ConcPolicyValues(s) ==
    {v \in PolicyValues(s) :
        /\ (v.pair /\ ~v.abandon) => Len(s.invoked) < ConcAttempts
        /\ v.delay \in {0, MaxDelay}
        /\ v.abandon => v.delay = 0}

InitConc ==
    /\ calls = [c \in ConcCalls |-> NewCall]
    /\ now = 0
    /\ runtime = "py38plus"
    /\ \E d \in ConcDecorations :
          /\ retry_policy = d.retry_policy
          /\ before_retry = d.before_retry

StepConc(c) ==
    \/ \E a \in ConcShapes : Wrapped(c, a.args, a.kwargs)
    \/ \E v \in Results : FnReturn(c, v)
    \/ FnRaise(c, "Exception")
    \/ PolicyRaise(c, "Exception")
    \/ \E v \in ConcPolicyValues(calls[c]) : PolicyReturn(c, v)
    \/ PolicyDefer(c)
    \/ \E v \in ConcPolicyValues(calls[c]) : PolicyResolve(c, v)
    \/ PolicyReject(c, "Exception")
    \/ HookReturn(c)
    \/ HookRaise(c, "Exception")
    \/ HookDefer(c)
    \/ HookResolve(c)
    \/ HookReject(c, "Exception")
    \/ SleepDone(c)

NextConc == \E c \in ConcCalls : StepConc(c)

SpecConc == InitConc /\ [][NextConc]_vars

(***************************************************************************)
(* One call whose awaited steps all complete: fn returns or raises an      *)
(* Exception, an awaited policy or hook result resolves or raises, the     *)
(* timer of the sleep fires, and nothing is cancelled.  The decorations    *)
(* and the arguments are those of the concurrent calls, the policies those *)
(* of Spec: they stop retrying at the MaxAttempts-th failure at the        *)
(* latest.                                                                 *)
(***************************************************************************)
InitLive ==
    /\ calls = [c \in Calls |-> NewCall]
    /\ now = 0
    /\ runtime \in Runtimes
    /\ \E d \in ConcDecorations :
          /\ retry_policy = d.retry_policy
          /\ before_retry = d.before_retry

StepLive(c) ==
    \/ \E a \in ConcShapes : Wrapped(c, a.args, a.kwargs)
    \/ \E v \in Results : FnReturn(c, v)
    \/ FnRaise(c, "Exception")
    \/ PolicyRaise(c, "Exception")
    \/ \E v \in PolicyValues(calls[c]) : PolicyReturn(c, v)
    \/ PolicyDefer(c)
    \/ \E v \in PolicyValues(calls[c]) : PolicyResolve(c, v)
    \/ PolicyReject(c, "Exception")
    \/ HookReturn(c)
    \/ HookRaise(c, "Exception")
    \/ HookDefer(c)
    \/ HookResolve(c)
    \/ HookReject(c, "Exception")
    \/ SleepDone(c)

NextLive == \E c \in Calls : StepLive(c)

SpecLive == InitLive /\ [][NextLive]_vars /\ WF_vars(NextLive)

(***************************************************************************)
(* Properties.                                                             *)
(***************************************************************************)
\* C1: when the policy abandons on the N-th failure (having retried the
\* failures before it), the call is over, fn has been invoked exactly N
\* times, and what the call raised is the very exception caught on the N-th
\* attempt.
C1_AbandonRaisesLastError ==
    \A c \in Calls :
        LET s == calls[c]
            N == Len(s.decided)
        IN  (N > 0 /\ s.decided[N].abandon) =>
                /\ s.pc = "done"
                /\ Len(s.invoked) = N
                /\ Len(s.caught) = N
                /\ s.outcome = Raised(s.caught[N].exc)
                /\ s.caught[N].exc.by = "fn" => s.caught[N].exc.n = N
                /\ \A k \in 1..(N - 1) : ~s.decided[k].abandon

\* C1's case: the policy retried two failures and abandoned on the third
C1_Witness ==
    \E c \in Calls :
        /\ Len(calls[c].decided) = 3
        /\ calls[c].decided[3].abandon
        /\ calls[c].outcome = Raised(Exc("fn", 3, "Exception"))

\* C2: when the first attempt succeeds, the call returns what fn returned,
\* and no policy was evaluated, no hook invoked, nothing slept, no warning
\* issued and no RetryInfo made.
C2_FirstSuccessTouchesNothing ==
    \A c \in Calls :
        LET s == calls[c]
        IN  (s.result # None /\ Len(s.invoked) = 1) =>
                /\ s.pc = "done"
                /\ s.outcome = Returned(s.result)
                /\ s.handed = <<>> /\ s.hooked = <<>> /\ s.decided = <<>>
                /\ s.sleeps = <<>> /\ s.warned = <<>>
                /\ s.info = 0 /\ s.heap = <<>>

\* C2's case: a call with a hook whose first attempt returned
C2_Witness ==
    \E c \in Calls :
        /\ calls[c].result = "b"
        /\ Len(calls[c].invoked) = 1
        /\ calls[c].hook # NoCallable

\* C3: when the policy raises (on the call or when its awaitable is
\* awaited), the call is over, it raised that exception, and since then
\* there was no attempt, no policy evaluation, no hook and no sleep.
C3_PolicyErrorPropagates ==
    \A c \in Calls :
        LET s == calls[c]
        IN  s.thrown.at = "policy" =>
                /\ s.pc = "done"
                /\ s.outcome = Raised(s.thrown.exc)
                /\ s.outcome.exc # s.fne
                /\ Counts(s) = s.thrown.counts

\* C3's case: the policy raised on the second failure of a call with a hook
C3_Witness ==
    \E c \in Calls :
        /\ calls[c].thrown.at = "policy"
        /\ Len(calls[c].caught) = 2
        /\ calls[c].hook # NoCallable
        /\ calls[c].thrown.exc.base = "Exception"

\* C4: when the hook raises (on the call or when its awaitable is awaited)
\* after a failure the policy decided to retry, the call is over, it raised
\* that exception, and since then there was no sleep and no attempt.
C4_HookErrorPropagates ==
    \A c \in Calls :
        LET s == calls[c]
        IN  s.thrown.at = "hook" =>
                /\ ~s.decided[Len(s.decided)].abandon
                /\ s.pc = "done"
                /\ s.outcome = Raised(s.thrown.exc)
                /\ s.outcome.exc # s.fne
                /\ Counts(s) = s.thrown.counts

\* C4's case: the hook raised after a decision to retry after a delay
C4_Witness ==
    \E c \in Calls :
        /\ calls[c].thrown.at = "hook"
        /\ calls[c].thrown.exc.base = "Exception"
        /\ calls[c].delay > 0
        /\ Len(calls[c].caught) = 2

\* C5: the snapshot passed to the policy on the k-th caught failure reads
\* fails = k, and since = the time of the first failure, in every snapshot
\* of the call.
C5_FailsCountAndSinceFixed ==
    \A c \in Calls :
        LET s == calls[c]
        IN  /\ Len(s.handed) \in {Len(s.caught), Len(s.caught) - 1}
            /\ Len(s.handed) < Len(s.caught) => s.pc = "policy"
            /\ \A k \in 1..Len(s.handed) :
                  /\ s.handed[k].fails = k
                  /\ s.handed[k].since = s.caught[1].at
                  /\ s.handed[k].since = s.handed[1].since

\* C5's case: three failures, the third later than the first
C5_Witness ==
    \E c \in Calls :
        /\ Len(calls[c].handed) = 3
        /\ calls[c].caught[3].at > calls[c].caught[1].at

\* C6: a call with no positional argument, of a function decorated with a
\* policy or a hook given as a name, raises get_method's error naming the
\* role and the name, with fn, the policy and the hook never invoked.
C6_NameWithoutReceiverFailsFirst ==
    \A c \in Calls :
        LET s == calls[c]
            named == IF retry_policy.form = "str"
                     THEN <<"retry_policy", retry_policy.nm>>
                     ELSE <<"before_retry", before_retry.nm>>
        IN  ( /\ s.pc # "idle"
              /\ Len(s.given.args) = 0
              /\ "str" \in {retry_policy.form, before_retry.form} ) =>
                /\ s.pc = "done"
                /\ s.outcome.kind = "raise"
                /\ s.outcome.exc.by = "get_method"
                /\ s.outcome.exc.what = named
                /\ s.invoked = <<>> /\ s.handed = <<>> /\ s.hooked = <<>>

\* C6's case: the hook is a name, the policy is not, and there is no
\* receiver
C6_Witness ==
    \E c \in Calls :
        /\ calls[c].pc = "done"
        /\ calls[c].given.args = <<>>
        /\ retry_policy.form = "callable"
        /\ before_retry.form = "str"
        /\ calls[c].outcome.exc.what = <<"before_retry", "_hook">>

\* C7: a call cancelled while suspended (in fn, in an awaitable policy
\* result, in an awaitable hook result, in asyncio.sleep) is over and raised
\* CancelledError, and nothing was done since: no failure caught, no attempt,
\* no policy evaluation, no hook, no sleep.
C7_CancellationPropagates ==
    \A c \in Calls :
        LET s == calls[c]
        IN  s.cancels > 0 =>
                /\ s.pc = "done"
                /\ s.outcome = Raised(CancelledError(runtime))
                /\ Counts(s) = s.atCancel

\* C7 where CancelledError derives from BaseException (Python 3.8 and later)
C7_FromPy38 == runtime = "py38plus" => C7_CancellationPropagates

\* C8: once the attempt after the k-th failure has started, a decision of
\* delay 0 for that failure went with no sleep, and a decision of delay
\* d > 0 with exactly one sleep, of duration d, that ended no earlier than d
\* after it began and no later than the attempt started.
SleepsAfter(s, k) == {i \in 1..Len(s.sleeps) : s.sleeps[i].after = k}

C8_DelayZeroNoSleepElseOne ==
    \A c \in Calls :
        LET s == calls[c]
        IN  /\ \A k \in 1..Len(s.decided) :
                 (~s.decided[k].abandon /\ Len(s.invoked) > k) =>
                    IF s.decided[k].delay = 0
                    THEN SleepsAfter(s, k) = {}
                    ELSE /\ Cardinality(SleepsAfter(s, k)) = 1
                         /\ \A i \in SleepsAfter(s, k) :
                              /\ s.sleeps[i].duration = s.decided[k].delay
                              /\ s.sleeps[i].end >=
                                    s.sleeps[i].start + s.decided[k].delay
                              /\ s.sleeps[i].end <= s.invoked[k + 1].at
            /\ s.pc = "sleep" => s.delay > 0

\* C8's case: the first failure was retried at once, the second after a
\* sleep of 2, and the third attempt has started
C8_Witness ==
    \E c \in Calls :
        /\ Len(calls[c].invoked) = 3
        /\ calls[c].decided[1].delay = 0
        /\ calls[c].decided[2].delay = 2
        /\ Len(calls[c].sleeps) = 1

\* C9: every invocation of fn got the positional and the keyword arguments
\* the wrapped function was called with.
C9_SameArgumentsEveryAttempt ==
    \A c \in Calls :
        \A k \in 1..Len(calls[c].invoked) :
            /\ calls[c].invoked[k].args = calls[c].given.args
            /\ calls[c].invoked[k].kwargs = calls[c].given.kwargs

\* C9's case: three attempts of a call with a receiver, a value and a
\* keyword argument
C9_Witness ==
    \E c \in Calls :
        /\ Len(calls[c].invoked) = 3
        /\ calls[c].given = [args |-> <<"self", "x">>, kwargs |-> <<"k">>]

\* C10: whoever kept the reference handed to the policy or to the hook on
\* the k-th failure still reads what was handed over: fails = k, the k-th
\* exception and the since of the first failure.
C10_SnapshotsNeverChange ==
    \A c \in Calls :
        LET s == calls[c]
        IN  /\ \A k \in 1..Len(s.handed) :
                  /\ Snapshot(s.heap, s.handed[k].ref) = s.handed[k]
                  /\ Snapshot(s.heap, s.handed[k].ref) =
                        [ref |-> s.handed[k].ref, fails |-> k,
                         exception |-> s.caught[k].exc,
                         since |-> s.caught[1].at]
            /\ \A j \in 1..Len(s.hooked) :
                  /\ Snapshot(s.heap, s.hooked[j].ref) = s.hooked[j]
                  /\ s.hooked[j] = s.handed[j]

\* C10's case: the third failure has been caught while the policy and the
\* hook hold the snapshots of the first two
C10_Witness ==
    \E c \in Calls :
        /\ Len(calls[c].caught) = 3
        /\ Len(calls[c].handed) >= 2
        /\ Len(calls[c].hooked) = 2
        /\ Len(calls[c].heap) = 3

\* The role whose malfunction a warning names
RoleOf(who) == IF who = "policy" THEN "retry_policy" ELSE "before_retry"

\* C11 as stated: whenever the policy or the hook raises, one warning naming
\* its role has been issued, and the call raised the very exception the
\* policy or the hook raised.
C11_AnyRaiseWarns ==
    \A c \in Calls :
        LET s == calls[c]
        IN  s.thrown.at # "none" =>
                /\ s.warned = <<RoleOf(s.thrown.at)>>
                /\ s.pc = "done"
                /\ s.outcome = Raised(s.thrown.exc)

\* C11 as amended: when the policy or the hook raises an exception that
\* derives from Exception, one warning naming its role has been issued; when
\* it raises one that does not, none has; either way the call raised the
\* very exception the policy or the hook raised.
C11_ExceptionRaiseWarns ==
    \A c \in Calls :
        LET s == calls[c]
        IN  s.thrown.at # "none" =>
                /\ s.warned = IF s.thrown.exc.base = "Exception"
                              THEN <<RoleOf(s.thrown.at)>>
                              ELSE <<>>
                /\ s.pc = "done"
                /\ s.outcome = Raised(s.thrown.exc)

\* C11's case: the awaited hook raised an Exception on the second failure,
\* and the warning names before_retry
C11_Witness ==
    \E c \in Calls :
        /\ calls[c].thrown.at = "hook"
        /\ calls[c].thrown.exc = Exc("hook", 2, "Exception")
        /\ calls[c].warned = <<"before_retry">>
        /\ calls[c].outcome = Raised(Exc("hook", 2, "Exception"))

\* What a call's own history makes of its episode: the k-th snapshot handed
\* to the policy counts the call's own k failures, carries its own k-th
\* exception (raised by its own k-th attempt) and the time of its own first
\* failure, and so does the RetryInfo it holds now.
OwnEpisode(s) ==
    /\ Len(s.heap) = Len(s.caught)
    /\ s.info = Len(s.caught)
    /\ Len(s.handed) <= Len(s.caught)
    /\ \A k \in 1..Len(s.caught) :
          /\ s.caught[k].exc.by = "fn" /\ s.caught[k].exc.n = k
          /\ s.heap[k] = [fails |-> k, exception |-> s.caught[k].exc,
                          since |-> s.caught[1].at]
    /\ \A k \in 1..Len(s.handed) :
          s.handed[k] = [ref |-> k, fails |-> k,
                         exception |-> s.caught[k].exc,
                         since |-> s.caught[1].at]

\* What a call alone makes of the results it got: fn's value if fn
\* returned, what the policy or the hook raised if one did, the unpacking
\* error if the last policy result was no pair, and else its own last
\* failure, the policy having abandoned
OwnOutcome(s) ==
    IF s.result # None THEN Returned(s.result)
    ELSE IF s.thrown.at # "none" THEN Raised(s.thrown.exc)
    ELSE IF Len(s.decided) < Len(s.caught)
    THEN Raised(Exc("unpack", Len(s.caught), "Exception"))
    ELSE Raised(s.caught[Len(s.caught)].exc)

\* C12: with two calls of the same wrapped function interleaved in any
\* way, each call's episode counts the failures of its own attempts only,
\* with the since of its own first failure, and a call that is over ended
\* as its own results alone determine, after as many attempts.
C12_ConcurrentCallsDoNotInteract ==
    \A c \in ConcCalls :
        LET s == calls[c]
        IN  /\ OwnEpisode(s)
            /\ s.pc = "done" =>
                  /\ s.outcome = OwnOutcome(s)
                  /\ Len(s.invoked) =
                        Len(s.caught) + (IF s.result # None THEN 1 ELSE 0)
            /\ s.pc = "fn" => Len(s.invoked) = Len(s.caught) + 1

\* C12's case: c2's first failure came after c1's first failure and sleep,
\* and before c1's second failure; both calls are over
C12_Witness ==
    /\ calls["c1"].pc = "done" /\ calls["c2"].pc = "done"
    /\ Len(calls["c1"].handed) = 2 /\ Len(calls["c2"].handed) = 2
    /\ calls["c1"].caught[1].at < calls["c2"].caught[1].at
    /\ calls["c2"].caught[1].at <= calls["c1"].caught[2].at
    /\ calls["c1"].caught[2].at <= calls["c2"].caught[2].at
    /\ calls["c1"].outcome # calls["c2"].outcome

\* What a call was given: the exceptions fn raised and the value it
\* returned, the values the policy answered with, and what the policy or
\* the hook raised
Inputs(s) ==
    [failures |-> [k \in 1..Len(s.caught) |-> s.caught[k].exc],
     result |-> s.result,
     answers |-> s.answers,
     thrown |-> <<s.thrown.at, s.thrown.exc>>]

\* The run of a call: its attempts, the hook invocations with the fails and
\* the exception each saw, the delays with the failure each followed, the
\* warnings, and the final result or exception
Run(s) ==
    [attempts |-> Len(s.invoked),
     evaluations |-> Len(s.handed),
     hooks |-> [k \in 1..Len(s.hooked) |->
                   <<s.hooked[k].fails, s.hooked[k].exception>>],
     delays |-> [k \in 1..Len(s.sleeps) |->
                   <<s.sleeps[k].after, s.sleeps[k].duration>>],
     warned |-> s.warned,
     outcome |-> s.outcome]

\* C13: of two finished calls given the same operation results and the
\* same policy answers, one whose policy and hook results were all plain
\* values and one that had awaitable results awaited, the runs are the
\* same: attempts, hook invocations, delays and final result or exception.
C13_DeferredRunsLikeSynchronous ==
    \A c \in ConcCalls, d \in ConcCalls :
        (/\ calls[c].pc = "done" /\ calls[d].pc = "done"
         /\ ~calls[c].awaited /\ calls[d].awaited
         /\ Inputs(calls[c]) = Inputs(calls[d]))
        => Run(calls[c]) = Run(calls[d])

\* C13's case: c1 got every policy and hook result at once, c2 awaited
\* some; both failed once, were retried after the hook and a delay, and
\* then succeeded with the same value
C13_Witness ==
    /\ calls["c1"].pc = "done" /\ calls["c2"].pc = "done"
    /\ ~calls["c1"].awaited /\ calls["c2"].awaited
    /\ Inputs(calls["c1"]) = Inputs(calls["c2"])
    /\ calls["c1"].result # None
    /\ Len(calls["c1"].hooked) = 1 /\ Len(calls["c1"].sleeps) = 1
    /\ Len(calls["c2"].hooked) = 1 /\ Len(calls["c2"].sleeps) = 1

\* What resolving the direct callable target against the receiver host is
\* to yield: the callable bound (a classmethod to the receiver's class, a
\* function the class defines under that name to the receiver; a
\* staticmethod has no receiver to take), or the callable as it is
BoundOrUnmodified(target, host) ==
    IF target.wrap = "classmethod" THEN Resolved(target.fid, TypeOf(host))
    ELSE IF /\ target.wrap = "function"
            /\ target.nm # None
            /\ ClassAttr(TypeOf(host), target.nm) = target.fid
    THEN Resolved(target.fid, host)
    ELSE Resolved(target.fid, None)

\* the targets of the decorator that are direct callables, with their roles
DirectTargets ==
    {r \in {[role |-> "retry_policy", target |-> retry_policy],
            [role |-> "before_retry", target |-> before_retry]} :
        r.target.form = "callable"}

\* C14: in a call with a receiver, resolving a direct callable does not
\* fail and yields the callable bound or unmodified, whatever its name:
\* get_method raises nothing, and perform runs with that callable.
C14_DirectCallableAlwaysResolves ==
    \A c \in Calls : \A r \in DirectTargets :
        LET s == calls[c]
            host == Host(s.given.args)
            m == get_method(r.target, host, r.role)
        IN  (s.pc # "idle" /\ host # None) =>
                /\ m.exc = NoExc
                /\ m.it = BoundOrUnmodified(r.target, host)
                /\ (r.role = "retry_policy" /\ s.invoked # <<>>)
                      => s.policy = m.it
                /\ (r.role = "before_retry" /\ s.invoked # <<>>)
                      => s.hook = m.it

\* the same for the callables that carry a name
C14_NamedCallableResolves ==
    \A c \in Calls : \A r \in DirectTargets :
        LET s == calls[c]
            host == Host(s.given.args)
            m == get_method(r.target, host, r.role)
        IN  (s.pc # "idle" /\ host # None /\ r.target.nm # None) =>
                /\ m.exc = NoExc
                /\ m.it = BoundOrUnmodified(r.target, host)
                /\ (r.role = "retry_policy" /\ s.invoked # <<>>)
                      => s.policy = m.it
                /\ (r.role = "before_retry" /\ s.invoked # <<>>)
                      => s.hook = m.it

\* The ways a call that entered the loop of perform can be over.
\* Succeeded: fn returned, and its value is the result.
Succeeded(s) ==
    /\ s.exit = "fn"
    /\ s.result # None
    /\ s.outcome = Returned(s.result)

\* Exhausted: the policy abandoned, and fn's last exception is raised
Exhausted(s) ==
    /\ s.exit = "policy"
    /\ Len(s.decided) = Len(s.caught)
    /\ s.decided[Len(s.decided)].abandon
    /\ s.outcome = Raised(s.caught[Len(s.caught)].exc)

\* Aborted: the evaluation of the policy gave no decision, or the hook
\* invocation did not complete, and what it raised is raised
Aborted(s) ==
    /\ \/ s.exit = "policy" /\ Len(s.decided) < Len(s.caught)
       \/ s.exit = "hook"
    /\ s.outcome.kind = "raise"
    /\ s.outcome.exc.by \in {"policy", "hook", "unpack", "cancel"}

\* Interrupted: an exception of fn that does not derive from Exception, or
\* an exception thrown into the delay, is raised as it is
Interrupted(s) ==
    /\ s.outcome.kind = "raise"
    /\ \/ /\ s.exit = "fn"
          /\ ~IsException(s.outcome.exc)
          /\ s.outcome.exc.by \in {"fn", "cancel"}
       \/ /\ s.exit = "sleep"
          /\ s.outcome.exc.by = "cancel"

\* how many of the given conditions hold
HowMany(conditions) == Len(SelectSeq(conditions, LAMBDA b : b))

\* C15: a call that entered the loop and is over is in exactly one of
\* Succeeded, Exhausted and Aborted.
C15_ThreeExits ==
    \A c \in Calls :
        LET s == calls[c]
        IN  (s.pc = "done" /\ s.invoked # <<>>) =>
                HowMany(<<Succeeded(s), Exhausted(s), Aborted(s)>>) = 1

\* C15 with the exit the loop also has: a call that entered the loop and is
\* over is in exactly one of Succeeded, Exhausted, Aborted and Interrupted.
C15_FourExits ==
    \A c \in Calls :
        LET s == calls[c]
        IN  (s.pc = "done" /\ s.invoked # <<>>) =>
                HowMany(<<Succeeded(s), Exhausted(s), Aborted(s),
                          Interrupted(s)>>) = 1

\* C15's case: a call is over in the fourth way, its second delay
\* cancelled
C15_Witness ==
    \E c \in Calls :
        /\ calls[c].pc = "done"
        /\ Interrupted(calls[c])
        /\ calls[c].exit = "sleep"
        /\ Len(calls[c].caught) = 2

\* What has been done for the n failures caught so far when a call with a
\* hook is at position pc: all steps for the failures before the n-th, and
\* for the n-th the steps that come before pc in the order policy
\* evaluation, decision, hook, delay, next attempt
InOrder(s) ==
    LET n == Len(s.caught)
        done == [invoked |-> Len(s.invoked), handed |-> Len(s.handed),
                 decided |-> Len(s.decided), hooked |-> Len(s.hooked),
                 slept |-> SleepsAfter(s, n) # {}]
        At(i, p, d, h, z) == [invoked |-> i, handed |-> p, decided |-> d,
                              hooked |-> h, slept |-> z]
    IN  CASE s.pc = "fn" /\ n = 0 -> done = At(1, 0, 0, 0, FALSE)
          [] s.pc = "fn" /\ n > 0 ->
                /\ Len(s.invoked) = n + 1 /\ Len(s.handed) = n
                /\ Len(s.decided) = n /\ Len(s.hooked) = n
                /\ done.slept <=> s.decided[n].delay > 0
          [] s.pc = "policy" -> done = At(n, n - 1, n - 1, n - 1, FALSE)
          [] s.pc = "policy_await" -> done = At(n, n, n - 1, n - 1, FALSE)
          [] s.pc = "hook" -> done = At(n, n, n, n - 1, FALSE)
          [] s.pc = "hook_await" -> done = At(n, n, n, n, FALSE)
          [] s.pc = "sleep" -> done = At(n, n, n, n, TRUE)
          [] OTHER -> TRUE

\* C16: in a call with a hook, the steps for each caught failure come in
\* the order policy evaluation, hook, delay, next attempt; the hook is
\* invoked once for each failure the policy decided to retry, and for no
\* other, with the snapshot the policy was handed for that failure; and a
\* call that succeeded after F failures made F + 1 attempts and F hook
\* invocations, with fails = 1..F.
C16_PolicyThenHookThenDelay ==
    \A c \in Calls :
        LET s == calls[c]
        IN  (s.invoked # <<>> /\ s.hook # NoCallable) =>
                /\ InOrder(s)
                /\ \A j \in 1..Len(s.hooked) :
                      /\ j <= Len(s.decided) /\ ~s.decided[j].abandon
                      /\ s.hooked[j] = s.handed[j]
                      /\ s.hooked[j].fails = j
                /\ \A k \in 1..Len(s.decided) :
                      ~s.decided[k].abandon =>
                          \/ k <= Len(s.hooked)
                          \/ k = Len(s.caught) /\ s.pc = "hook"
                /\ Succeeded(s) =>
                      /\ Len(s.invoked) = Len(s.caught) + 1
                      /\ Len(s.hooked) = Len(s.caught)

\* C16's case: a call with a hook succeeded at its third attempt, after a
\* retry at once and a retry after a delay
C16_Witness ==
    \E c \in Calls :
        /\ Succeeded(calls[c])
        /\ calls[c].hook # NoCallable
        /\ Len(calls[c].caught) = 2
        /\ Len(calls[c].hooked) = 2
        /\ Len(calls[c].sleeps) = 1

\* C17: once the policy has answered abandon = true for a failure,
\* whatever the delay it answered with, the call is over with that
\* failure's exception, ended in the policy step, and for that failure no
\* hook was invoked, nothing was slept and no attempt followed.
C17_AbandonIgnoresDelay ==
    \A c \in Calls :
        LET s == calls[c]
            n == Len(s.decided)
        IN  (n > 0 /\ s.decided[n].abandon) =>
                /\ s.pc = "done"
                /\ s.exit = "policy"
                /\ s.outcome = Raised(s.caught[n].exc)
                /\ Len(s.caught) = n
                /\ Len(s.invoked) = n
                /\ \A j \in 1..Len(s.hooked) : s.hooked[j].fails < n
                /\ SleepsAfter(s, n) = {}
                /\ s.warned = <<>>

\* C17's case: with a hook supplied, the policy abandoned the second
\* failure with the delay MaxDelay, after a retry
C17_Witness ==
    \E c \in Calls :
        /\ calls[c].hook # NoCallable
        /\ Len(calls[c].decided) = 2
        /\ calls[c].decided[2] = Pair(TRUE, MaxDelay)
        /\ calls[c].pc = "done"

\* What a running call has started and not finished, counted from what
\* happened: attempts of fn (invoked, and neither failed nor returned),
\* policy evaluations (handed info, and no answer yet), hook invocations
\* (handed info, and neither a delay nor an attempt has followed) and
\* delays (begun, and not ended)
AttemptsInFlight(s) == Len(s.invoked) - Len(s.caught)

EvaluationsInFlight(s) == Len(s.handed) - Len(s.answers)

HooksInFlight(s) ==
    Cardinality({j \in 1..Len(s.hooked) :
                    SleepsAfter(s, j) = {} /\ Len(s.invoked) <= j})

DelaysInFlight(s) ==
    Cardinality({i \in 1..Len(s.sleeps) : s.sleeps[i].end = -1})

\* C18: in a call that is running, at most one attempt, policy evaluation,
\* hook invocation or delay is in flight: none of each kind is negative in
\* number, and together they are at most one; an attempt is in flight
\* exactly while the call is suspended in fn.
C18_OneStepInFlight ==
    \A c \in Calls :
        LET s == calls[c]
            a == AttemptsInFlight(s)
            p == EvaluationsInFlight(s)
            h == HooksInFlight(s)
            d == DelaysInFlight(s)
        IN  s.pc \notin {"idle", "done"} =>
                /\ a >= 0 /\ p >= 0
                /\ a + p + h + d <= 1
                /\ a = 1 <=> s.pc = "fn"
                /\ p = 1 <=> s.pc = "policy_await"
                /\ h = 1 <=> s.pc = "hook_await"
                /\ d = 1 <=> s.pc = "sleep"

\* C18's case: a delay is in flight after the second failure, the policy
\* and the hook having been evaluated twice, with an awaitable result
C18_Witness ==
    \E c \in Calls :
        /\ calls[c].pc = "sleep"
        /\ calls[c].awaited
        /\ Len(calls[c].hooked) = 2
        /\ Len(calls[c].sleeps) = 2
        /\ DelaysInFlight(calls[c]) = 1

\* C19: when every awaited step completes, with policies that abandon at
\* the N-th failure at the latest (N = MaxAttempts), every call ends, and
\* fn is never invoked more than N times, a call abandoned at its n-th
\* failure having invoked it n times; and the loop does not stop by
\* itself: once the policy has decided to retry the k-th failure, either
\* attempt k + 1 follows or the call ends in the hook, which raised.
C19_TerminatesWhenPolicyAbandons ==
    \A c \in Calls :
        /\ [](Len(calls[c].invoked) <= MaxAttempts)
        /\ [](\A n \in 1..Len(calls[c].decided) :
                 calls[c].decided[n].abandon =>
                    calls[c].pc = "done" /\ Len(calls[c].invoked) = n)
        /\ <>(calls[c].pc = "done")
        /\ \A k \in 1..(MaxAttempts - 1) :
              (Len(calls[c].decided) = k /\ ~calls[c].decided[k].abandon)
                 ~> \/ Len(calls[c].invoked) > k
                    \/ calls[c].exit = "hook"

\* C19's case: the policy abandoned at the N-th failure, N = MaxAttempts,
\* after N invocations of fn with a hook and a delay before each retry
C19_Witness ==
    \E c \in Calls :
        /\ Exhausted(calls[c])
        /\ Len(calls[c].invoked) = MaxAttempts
        /\ Len(calls[c].hooked) = MaxAttempts - 1
        /\ Len(calls[c].sleeps) = MaxAttempts - 1

\* C20: once the policy has answered, at once or through an awaitable,
\* with a value that is no (abandon, delay) pair, the call is over like
\* one whose policy raised: 'retry_policy' was warned about, the unpacking
\* error is raised and not fn's exception, and for that failure no hook
\* was invoked, nothing was slept and no attempt followed.
C20_UnpackErrorIsPolicyError ==
    \A c \in Calls :
        LET s == calls[c]
            n == Len(s.answers)
        IN  (n > 0 /\ ~s.answers[n].pair) =>
                /\ s.pc = "done"
                /\ s.exit = "policy"
                /\ s.warned = <<"retry_policy">>
                /\ s.outcome = Raised(Exc("unpack", n, "Exception"))
                /\ s.outcome.exc # s.fne
                /\ Len(s.decided) = n - 1
                /\ Len(s.caught) = n
                /\ Len(s.invoked) = n
                /\ \A j \in 1..Len(s.hooked) : s.hooked[j].fails < n
                /\ SleepsAfter(s, n) = {}

\* C20's case: with a hook supplied, the second failure's policy result was
\* awaited and was no pair
C20_Witness ==
    \E c \in Calls :
        /\ calls[c].hook # NoCallable
        /\ calls[c].awaited
        /\ Len(calls[c].answers) = 2
        /\ calls[c].answers[2] = NoPair
        /\ Len(calls[c].hooked) = 1

====
